---- MODULE Spec2Model ----
(***************************************************************************)
(* Blog title generator: the suggest-titles request handler               *)
(* (title_suggestion/views.py), the persisted request record              *)
(* (title_suggestion/models.py), the two title providers                  *)
(* (services/openai_service.py, services/huggingface_service.py) and the  *)
(* suggestion cache (services/cache_service.py).                          *)
(*                                                                         *)
(* Python strings are sequences of one-character strings, so that strip,  *)
(* split and join are computed as Python computes them.  Python's None is *)
(* the one-element sequence None, which is no string of characters.       *)
(***************************************************************************)
EXTENDS Integers, Sequences, FiniteSets, TLC

VARIABLES
    pc,               \* position of the request handler
    content,          \* request.data.get('content') of the request in progress
    include_analysis, \* request.data.get('include_analysis', False)
    db,               \* TitleSuggestionRequest rows, in creation order
    suggestion_request, \* row id of the record of the request in progress (0: none)
    analysis_data,    \* the analysis block of the request in progress
    openai_titles,    \* Provider A's result
    hf_titles,        \* Provider B's result
    errors,           \* the warnings collected by the request in progress
    combined_titles,  \* the merged list
    response,         \* the response of the request in progress
    events,           \* what the request in progress has done so far, in order
    nreq,             \* requests received so far
    cache,            \* the key-value store behind django.core.cache
    now,              \* the store's clock, in seconds
    call,             \* the last direct call of the cache service and its result
    accepted,         \* the lists the direct cache_suggestions calls stored, by content and service
    arg,              \* the arguments and the progress of the direct calls of a service function
    ret               \* what those calls gave back

vars == <<pc, content, include_analysis, db, suggestion_request, analysis_data,
          openai_titles, hf_titles, errors, combined_titles, response, events,
          nreq, cache, now, call, accepted, arg, ret>>

---------------------------------------------------------------------------
(* Bounds of the model *)

MaxRequests == 1
MaxTitles == 4
MaxTicks == 2

---------------------------------------------------------------------------
(* Python values and string primitives *)

None == <<"<None>">>

Whitespace == {" ", "\n", "\t"}

Digits == {"0", "1", "2", "3", "4", "5", "6", "7", "8", "9"}

Min(a, b) == IF a < b THEN a ELSE b

\* s[i:j] of Python for 0 <= i, 0 <= j (0-based, j exclusive, clipped)
Slice(s, i, j) == SubSeq(s, i + 1, Min(j, Len(s)))

\* s[i:] of Python
SliceFrom(s, i) == SubSeq(s, i + 1, Len(s))

Pad(ch, n) == [i \in 1..n |-> ch]

StartsWith(s, p) == Len(s) >= Len(p) /\ SubSeq(s, 1, Len(p)) = p

EndsWith(s, p) == Len(s) >= Len(p) /\ SubSeq(s, Len(s) - Len(p) + 1, Len(s)) = p

\* str.strip(): leading and trailing whitespace removed
Strip(s) ==
    LET lo == CHOOSE i \in 1..Len(s) :
                  s[i] \notin Whitespace /\ \A j \in 1..(i - 1) : s[j] \in Whitespace
        hi == CHOOSE i \in 1..Len(s) :
                  s[i] \notin Whitespace /\ \A j \in (i + 1)..Len(s) : s[j] \in Whitespace
    IN IF \A i \in 1..Len(s) : s[i] \in Whitespace THEN <<>> ELSE SubSeq(s, lo, hi)

\* str.find(sep) + 1: the first position where sep occurs in s, 0 when none
Find(s, sep) ==
    LET at == {i \in 1..(Len(s) - Len(sep) + 1) : SubSeq(s, i, i + Len(sep) - 1) = sep}
    IN IF at = {} THEN 0 ELSE CHOOSE i \in at : \A j \in at : i <= j

RECURSIVE Split(_, _)
\* str.split(sep) for a non-empty sep: cut at each occurrence, left to right
Split(s, sep) ==
    LET k == Find(s, sep)
    IN IF k = 0 THEN <<s>>
       ELSE <<SubSeq(s, 1, k - 1)>> \o Split(SubSeq(s, k + Len(sep), Len(s)), sep)

\* str.split(sep, 1): cut at the first occurrence only
Split1(s, sep) ==
    LET k == Find(s, sep)
    IN IF k = 0 THEN <<s>>
       ELSE <<SubSeq(s, 1, k - 1), SubSeq(s, k + Len(sep), Len(s))>>

RECURSIVE Join(_, _)
\* sep.join(parts)
Join(parts, sep) ==
    IF parts = <<>> THEN <<>>
    ELSE IF Len(parts) = 1 THEN parts[1]
    ELSE parts[1] \o sep \o Join(Tail(parts), sep)

\* every sequence over S of length at most n
SeqsUpTo(S, n) == UNION {[1..k -> S] : k \in 0..n}

IsPrefix(p, s) == Len(p) <= Len(s) /\ SubSeq(s, 1, Len(p)) = p

---------------------------------------------------------------------------
(* models.py: TitleSuggestionRequest *)

Delimiter == <<"|", "|", "|">>

set_suggested_titles_list(titles_list) ==
    IF titles_list = <<>> THEN None ELSE Join(titles_list, Delimiter)

get_suggested_titles_list(suggested_titles) ==
    IF suggested_titles = None \/ suggested_titles = <<>> THEN <<>>
    ELSE LET parts == Split(suggested_titles, Delimiter)
         IN [i \in 1..Len(parts) |-> Strip(parts[i])]

---------------------------------------------------------------------------
(* views.py: the merge of the two providers' results *)

\* the mutant of CombineTitles: Provider B's title taken before Provider A's
CombineTitles_BFirst(A, B) ==
    Slice(Slice(B, 0, 1) \o Slice(A, 0, 2) \o Slice(A, 2, 3), 0, 3)

\* the mutant of CombineTitles: the slots left free are not filled
CombineTitles_no_fill(A, B) == Slice(Slice(A, 0, 2) \o Slice(B, 0, 1), 0, 3)

\* the mutant of CombineTitles: no quota
CombineTitles_no_quota(A, B) == A \o B

\* the mutant of CombineTitles: the providers' titles alternate
CombineTitles_alternating(A, B) ==
    Slice(Slice(A, 0, 1) \o Slice(B, 0, 1) \o Slice(A, 1, 2), 0, 3)

\* lines 102-117: two of A, one of B, the free slots filled, three at most
CombineTitles(A, B) ==
    LET c1 == (IF A # <<>> THEN Slice(A, 0, 2) ELSE <<>>)
              \o (IF B # <<>> THEN Slice(B, 0, 1) ELSE <<>>)
        c2 == IF Len(c1) < 3 /\ A # <<>> /\ Len(A) > 2
              THEN c1 \o Slice(A, 2, 3) ELSE c1
        c3 == IF Len(c1) < 3 /\ Len(c2) < 3 /\ B # <<>> /\ Len(B) > 1
              THEN c2 \o Slice(B, 1, 3 - Len(c2)) ELSE c2
    IN Slice(c3, 0, 3)

---------------------------------------------------------------------------
(* services/cache_service.py: TitleSuggestionCache *)

CACHE_TIMEOUT == 86400

\* Optional[list]: what get_cached_suggestions returns
NoneResult == [some |-> FALSE, value |-> <<>>]

Some(v) == [some |-> TRUE, value |-> v]

\* hashlib.md5(content.encode('utf-8')).hexdigest(): the digest is a function
\* of the exact content and is taken to be collision-free on the contents of
\* the model
md5_hexdigest(text) == [md5 |-> text]

\* the mutant of get_cache_key: the service name left out of the key
get_cache_key_no_service(text, service_name) ==
    [prefix |-> "title_suggestion", service |-> "", hash |-> md5_hexdigest(text)]

\* f"title_suggestion:{service_name}:{content_hash}"
get_cache_key(text, service_name) ==
    [prefix |-> "title_suggestion", service |-> service_name,
     hash |-> md5_hexdigest(text)]

\* cache.get(key): the live entry's value, None when absent or expired
cache_get(store, clock, key) ==
    LET live == {e \in store : e.key = key /\ e.expires > clock}
    IN IF live = {} THEN NoneResult ELSE Some((CHOOSE e \in live : TRUE).value)

\* the mutant of cache_set: a key that has an entry keeps it (cache.add)
cache_set_keeps_existing(store, clock, key, value, timeout) ==
    IF \E e \in store : e.key = key THEN store
    ELSE store \cup {[key |-> key, value |-> value, expires |-> clock + timeout]}

\* cache.set(key, value, timeout): the entry of the key is replaced
cache_set(store, clock, key, value, timeout) ==
    {e \in store : e.key # key}
        \cup {[key |-> key, value |-> value, expires |-> clock + timeout]}

\* get_cached_suggestions(content, service_name); fault: the store or the key
\* generation raises
get_cached_suggestions(store, clock, text, service_name, fault) ==
    IF text = <<>> \/ service_name = "" THEN NoneResult
    ELSE IF fault THEN NoneResult
    ELSE LET cached_result == cache_get(store, clock, get_cache_key(text, service_name))
         IN IF cached_result.some /\ cached_result.value # <<>>
            THEN cached_result ELSE NoneResult

\* the mutant of cache_suggestions: an empty list is stored like any other
cache_suggestions_stores_empty(store, clock, text, service_name, suggestions, fault) ==
    IF text = <<>> \/ service_name = "" THEN [ok |-> FALSE, store |-> store]
    ELSE IF fault THEN [ok |-> FALSE, store |-> store]
    ELSE [ok |-> TRUE,
          store |-> cache_set(store, clock, get_cache_key(text, service_name),
                              suggestions, CACHE_TIMEOUT)]

\* cache_suggestions(content, service_name, suggestions): the value returned
\* and the store afterwards
cache_suggestions(store, clock, text, service_name, suggestions, fault) ==
    IF suggestions = <<>> THEN [ok |-> FALSE, store |-> store]
    ELSE IF text = <<>> \/ service_name = "" THEN [ok |-> FALSE, store |-> store]
    ELSE IF fault THEN [ok |-> FALSE, store |-> store]
    ELSE [ok |-> TRUE,
          store |-> cache_set(store, clock, get_cache_key(text, service_name),
                              suggestions, CACHE_TIMEOUT)]

---------------------------------------------------------------------------
(* services/openai_service.py: OpenAITitleGenerator (Provider A) *)

TitleMaxLen == 60

Contains(s, ch) == \E i \in 1..Len(s) : s[i] = ch

BannedPrefixes == {<<"t", "i", "t", "l", "e">>,
                   <<"s", "u", "g", "g", "e", "s", "t", "i", "o", "n">>,
                   <<"h", "e", "r", "e">>}

\* the mutant of KeepTitle: no limit on the length
KeepTitle_no_limit(title) == IF title # <<>> THEN <<title>> ELSE <<>>

\* a candidate is kept only if non-empty and at most 60 characters long
KeepTitle(title) ==
    IF title # <<>> /\ Len(title) <= TitleMaxLen THEN <<title>> ELSE <<>>

\* the mutant of ProcessLine: the number of a numbered line stays in the title
ProcessLine_keeps_number(raw) ==
    LET line == Strip(raw)
    IN IF line = <<>> THEN <<>>
       ELSE IF StartsWith(line, <<"-">>)
            THEN KeepTitle(Strip(SliceFrom(line, 1)))
       ELSE IF ~ \E prefix \in BannedPrefixes : StartsWith(line, prefix)
            THEN KeepTitle(line)
       ELSE <<>>

\* one line of the response: the titles it contributes (none or one)
ProcessLine(raw) ==
    LET line == Strip(raw)
    IN IF line = <<>> THEN <<>>
       ELSE IF Contains(line, ".") /\ line[1] \in Digits
            THEN KeepTitle(Strip(Split1(line, <<".">>)[2]))
       ELSE IF StartsWith(line, <<"-">>)
            THEN KeepTitle(Strip(SliceFrom(line, 1)))
       ELSE IF ~ \E prefix \in BannedPrefixes : StartsWith(line, prefix)
            THEN KeepTitle(line)
       ELSE <<>>

RECURSIVE ProcessLines(_)
ProcessLines(lines) ==
    IF lines = <<>> THEN <<>> ELSE ProcessLine(lines[1]) \o ProcessLines(Tail(lines))

\* _process_response on the message text of the first choice
process_response(message_content) ==
    LET generated_text == Strip(message_content)
    IN IF generated_text = <<>> THEN <<>>
       ELSE ProcessLines(Split(generated_text, <<"\n">>))

\* what a provider call gives back: a list, or a raised service error with
\* its message (a sequence of text fragments), the cache store afterwards,
\* and whether the external service was called on the way
Returned(titles, store) ==
    [raised |-> FALSE, titles |-> titles, msg |-> <<>>, store |-> store,
     external |-> TRUE]

Raised(msg, store) ==
    [raised |-> TRUE, titles |-> <<>>, msg |-> msg, store |-> store,
     external |-> TRUE]

\* the early return of a cache hit: the external service is not called
FromCache(titles, store) ==
    [raised |-> FALSE, titles |-> titles, msg |-> <<>>, store |-> store,
     external |-> FALSE]

\* str(e) of an exception raised by a collaborator: whatever text it carries
ExcText == "<str(e)>"

\* what the chat endpoint does on one call: one of the client's errors, any
\* other exception, a response without a message text, or a message text
OpenAIRemote ==
    [kind : {"rate_limit", "connection", "internal", "api_error", "exception",
             "malformed"},
     text : {<<>>}]
    \cup [kind : {"text"},
          text : {<<>>,
                  <<"1", ".", " ", "a", "b", "\n", "-", " ", "c", "d", "\n", "e", "f", "\n", "4", ".", " ", "g", "h">>,
                  <<"2", ".", " ", "a", "|", "|", "|", "b">>,
                  <<"1", ".", " ">> \o Pad("x", TitleMaxLen + 1)}]

\* the mutant of OpenAI_generate_titles: a fault of the cache lookup reaches
\* the provider and is wrapped as a service error
OpenAI_generate_titles_fail_closed(store, clock, text, remote, get_fault, set_fault) ==
    LET cached_titles == get_cached_suggestions(store, clock, text, "openai", get_fault)
        titles == process_response(remote.text)
    IN IF get_fault THEN Raised(<<"Title generation failed: ", ExcText>>, store)
       ELSE IF cached_titles.some THEN FromCache(cached_titles.value, store)
       ELSE CASE remote.kind = "rate_limit" ->
                   Raised(<<"Rate limit exceeded. Please try again later.">>, store)
              [] remote.kind = "connection" ->
                   Raised(<<"Connection error. Please check your internet connection.">>, store)
              [] remote.kind = "internal" ->
                   Raised(<<"OpenAI service is currently experiencing issues.">>, store)
              [] remote.kind = "api_error" ->
                   Raised(<<"API error occurred. Please try again.">>, store)
              [] remote.kind = "exception" ->
                   Raised(<<"Failed to generate titles: ", ExcText>>, store)
              [] remote.kind = "malformed" ->
                   Raised(<<"Failed to process response: ", ExcText>>, store)
              [] remote.kind = "text" ->
                   IF titles = <<>> THEN Returned(<<>>, store)
                   ELSE Returned(titles,
                            cache_suggestions(store, clock, text, "openai", titles,
                                              set_fault).store)

\* generate_titles(content): get_fault and set_fault say whether the cache
\* faults on the lookup and on the store
OpenAI_generate_titles(store, clock, text, remote, get_fault, set_fault) ==
    LET cached_titles == get_cached_suggestions(store, clock, text, "openai", get_fault)
        titles == process_response(remote.text)
    IN IF cached_titles.some THEN FromCache(cached_titles.value, store)
       ELSE CASE remote.kind = "rate_limit" ->
                   Raised(<<"Rate limit exceeded. Please try again later.">>, store)
              [] remote.kind = "connection" ->
                   Raised(<<"Connection error. Please check your internet connection.">>, store)
              [] remote.kind = "internal" ->
                   Raised(<<"OpenAI service is currently experiencing issues.">>, store)
              [] remote.kind = "api_error" ->
                   Raised(<<"API error occurred. Please try again.">>, store)
              [] remote.kind = "exception" ->
                   Raised(<<"Failed to generate titles: ", ExcText>>, store)
              [] remote.kind = "malformed" ->
                   Raised(<<"Failed to process response: ", ExcText>>, store)
              [] remote.kind = "text" ->
                   IF titles = <<>> THEN Returned(<<>>, store)
                   ELSE Returned(titles,
                            cache_suggestions(store, clock, text, "openai", titles,
                                              set_fault).store)

---------------------------------------------------------------------------
(* services/huggingface_service.py: HuggingFaceTitleGenerator (Provider B) *)

Lower == <<"a", "b", "c", "d", "e", "f", "g", "h", "i", "j", "k", "l", "m",
           "n", "o", "p", "q", "r", "s", "t", "u", "v", "w", "x", "y", "z">>

Upper == <<"A", "B", "C", "D", "E", "F", "G", "H", "I", "J", "K", "L", "M",
           "N", "O", "P", "Q", "R", "S", "T", "U", "V", "W", "X", "Y", "Z">>

\* str.upper() of one character
UpperChar(ch) ==
    IF \E i \in 1..26 : Lower[i] = ch
    THEN Upper[CHOOSE i \in 1..26 : Lower[i] = ch] ELSE ch

\* _clean_title: trimmed, one trailing period removed, first letter capitalized
clean_title(raw) ==
    LET t1 == Strip(raw)
        t2 == IF EndsWith(t1, <<".">>) THEN SubSeq(t1, 1, Len(t1) - 1) ELSE t1
    IN IF t2 # <<>> THEN <<UpperChar(t2[1])>> \o Tail(t2) ELSE t2

RECURSIVE CleanTitles(_)
\* [self._clean_title(title) for title in titles if title], on the texts
\* as the summarizer gave them (each is stripped when extracted)
CleanTitles(raw) ==
    IF raw = <<>> THEN <<>>
    ELSE (IF Strip(raw[1]) # <<>> THEN <<clean_title(Strip(raw[1]))>> ELSE <<>>)
         \o CleanTitles(Tail(raw))

\* what the summarizer does on one call: in API mode the request times out,
\* fails, or anything else raises; the local pipeline raises; or texts come back
HFRemote ==
    [kind : {"timeout", "request_error", "unexpected", "summarizer_error"},
     texts : {<<>>}]
    \cup [kind : {"texts"},
          texts : {<<>>,
                   <<<<" ", "i", "j", " ", ".">>, <<"k", "l">>>>,
                   <<<<".">>, <<"m", "n", ".">>, <<"o", "p">>>>}]

\* the calls that can happen in each mode
HFRemoteFor(api_mode) ==
    {r \in HFRemote :
        IF api_mode THEN r.kind # "summarizer_error"
        ELSE r.kind \in {"summarizer_error", "texts"}}

\* the mutant of HF_generate_titles: the cache is not consulted
HF_generate_titles_no_lookup(store, clock, text, remote, get_fault, set_fault) ==
    LET cached_titles ==
            get_cached_suggestions(store, clock, text, "huggingface", get_fault)
        titles == CleanTitles(remote.texts)
    IN IF FALSE THEN FromCache(cached_titles.value, store)
       ELSE CASE remote.kind = "timeout" ->
                   Raised(<<"Request timed out. Please try again.">>, store)
              [] remote.kind = "request_error" ->
                   Raised(<<"API request failed: ", ExcText>>, store)
              [] remote.kind = "unexpected" ->
                   Raised(<<"Failed to generate titles via API: ", ExcText>>, store)
              [] remote.kind = "summarizer_error" ->
                   Raised(<<"Failed to generate titles locally: ", ExcText>>, store)
              [] remote.kind = "texts" ->
                   IF titles = <<>> THEN Returned(<<>>, store)
                   ELSE Returned(titles,
                            cache_suggestions(store, clock, text, "huggingface",
                                              titles, set_fault).store)

\* generate_titles(content) of Provider B; api_mode: an API key is configured
HF_generate_titles(store, clock, text, remote, get_fault, set_fault) ==
    LET cached_titles ==
            get_cached_suggestions(store, clock, text, "huggingface", get_fault)
        titles == CleanTitles(remote.texts)
    IN IF cached_titles.some THEN FromCache(cached_titles.value, store)
       ELSE CASE remote.kind = "timeout" ->
                   Raised(<<"Request timed out. Please try again.">>, store)
              [] remote.kind = "request_error" ->
                   Raised(<<"API request failed: ", ExcText>>, store)
              [] remote.kind = "unexpected" ->
                   Raised(<<"Failed to generate titles via API: ", ExcText>>, store)
              [] remote.kind = "summarizer_error" ->
                   Raised(<<"Failed to generate titles locally: ", ExcText>>, store)
              [] remote.kind = "texts" ->
                   IF titles = <<>> THEN Returned(<<>>, store)
                   ELSE Returned(titles,
                            cache_suggestions(store, clock, text, "huggingface",
                                              titles, set_fault).store)

---------------------------------------------------------------------------
(* services/text_utils.py: TextAnalyzer *)

\* str.lower() of one character
LowerChar(ch) ==
    IF \E i \in 1..26 : Upper[i] = ch
    THEN Lower[CHOOSE i \in 1..26 : Upper[i] = ch] ELSE ch

\* str.lower()
lower(s) == [i \in 1..Len(s) |-> LowerChar(s[i])]

\* string.punctuation (but for the backquote, which no text of the model holds)
Punctuation ==
    {"!", "\"", "#", "$", "%", "&", "'", "(", ")", "*", "+", ",", "-", ".",
     "/", ":", ";", "<", "=", ">", "?", "@", "[", "\\", "]", "^", "_", "{",
     "|", "}", "~"}

\* re.sub(f'[{re.escape(string.punctuation)}]', ' ', text)
remove_punctuation(s) ==
    [i \in 1..Len(s) |-> IF s[i] \in Punctuation THEN " " ELSE s[i]]

RECURSIVE split_whitespace(_)
\* str.split(): the maximal runs of characters that are not whitespace
split_whitespace(s) ==
    LET t == Strip(s)
        gaps == {i \in 1..Len(t) : t[i] \in Whitespace}
        k == CHOOSE i \in gaps : \A j \in gaps : i <= j
    IN IF t = <<>> THEN <<>>
       ELSE IF gaps = {} THEN <<t>>
       ELSE <<SubSeq(t, 1, k - 1)>> \o split_whitespace(SubSeq(t, k + 1, Len(t)))

stop_words ==
    {<<"a">>, <<"a", "n">>, <<"t", "h", "e">>, <<"a", "n", "d">>,
     <<"o", "r">>, <<"b", "u", "t">>, <<"i", "f">>,
     <<"b", "e", "c", "a", "u", "s", "e">>, <<"a", "s">>,
     <<"w", "h", "a", "t">>, <<"w", "h", "i", "c", "h">>,
     <<"t", "h", "i", "s">>, <<"t", "h", "a", "t">>,
     <<"t", "h", "e", "s", "e">>, <<"t", "h", "o", "s", "e">>,
     <<"t", "h", "e", "n">>, <<"j", "u", "s", "t">>, <<"s", "o">>,
     <<"t", "h", "a", "n">>, <<"s", "u", "c", "h">>, <<"b", "o", "t", "h">>,
     <<"t", "h", "r", "o", "u", "g", "h">>, <<"a", "b", "o", "u", "t">>,
     <<"f", "o", "r">>, <<"i", "s">>, <<"o", "f">>,
     <<"w", "h", "i", "l", "e">>, <<"d", "u", "r", "i", "n", "g">>,
     <<"t", "o">>, <<"i", "n">>, <<"a", "t">>, <<"b", "y">>, <<"o", "n">>,
     <<"w", "i", "t", "h">>, <<"f", "r", "o", "m">>, <<"b", "e">>,
     <<"b", "e", "e", "n">>, <<"b", "e", "i", "n", "g">>,
     <<"h", "a", "v", "e">>, <<"h", "a", "s">>, <<"h", "a", "d">>,
     <<"d", "o">>, <<"d", "o", "e", "s">>, <<"d", "i", "d">>, <<"i">>,
     <<"y", "o", "u">>, <<"h", "e">>, <<"s", "h", "e">>, <<"i", "t">>,
     <<"w", "e">>, <<"t", "h", "e", "y">>, <<"m", "e">>, <<"h", "i", "m">>,
     <<"h", "e", "r">>, <<"u", "s">>, <<"t", "h", "e", "m">>,
     <<"w", "h", "o">>, <<"w", "h", "o", "m">>, <<"w", "h", "o", "s", "e">>,
     <<"w", "h", "e", "r", "e">>, <<"w", "h", "e", "n">>, <<"w", "h", "y">>,
     <<"h", "o", "w">>}

RECURSIVE filter_words_keeps_short(_)
\* the mutant of filter_words: only the stop words are filtered out
filter_words_keeps_short(words) ==
    IF words = <<>> THEN <<>>
    ELSE (IF words[1] \notin stop_words THEN <<words[1]>> ELSE <<>>)
         \o filter_words_keeps_short(Tail(words))

RECURSIVE filter_words(_)
\* [word for word in words if word not in stop_words and len(word) > 2]
filter_words(words) ==
    IF words = <<>> THEN <<>>
    ELSE (IF words[1] \notin stop_words /\ Len(words[1]) > 2
          THEN <<words[1]>> ELSE <<>>) \o filter_words(Tail(words))

RECURSIVE counter_keys(_)
\* the keys of Counter(words), in insertion order: each word where first seen
counter_keys(words) ==
    IF words = <<>> THEN <<>>
    ELSE LET before == counter_keys(SubSeq(words, 1, Len(words) - 1))
             last == words[Len(words)]
         IN IF \E i \in 1..Len(before) : before[i] = last THEN before
            ELSE Append(before, last)

\* Counter(words)[w]
counter_count(words, w) == Cardinality({i \in 1..Len(words) : words[i] = w})

\* Counter(words).most_common(n): the n largest counts, equal counts in
\* insertion order
most_common(words, n) ==
    LET keys == counter_keys(words)
        count(i) == counter_count(words, keys[i])
        rank(i) == 1 + Cardinality({j \in 1..Len(keys) :
                                      \/ count(j) > count(i)
                                      \/ (count(j) = count(i) /\ j < i)})
    IN [r \in 1..Min(n, Len(keys)) |->
          LET i == CHOOSE i \in 1..Len(keys) : rank(i) = r
          IN <<keys[i], count(i)>>]

\* what a TextAnalyzer function gives back: a value, or a raised
\* TextAnalysisError with its message
Value_of(v) == [raised |-> FALSE, msg |-> <<>>, value |-> v]

TextAnalysisError(msg) == [raised |-> TRUE, msg |-> msg, value |-> <<>>]

\* extract_keywords(text, top_n); text is the argument as the caller gave it
\* (a string or not), top_n an integer
extract_keywords(text, top_n) ==
    IF text.type # "str"
    THEN TextAnalysisError(<<"Keyword extraction failed: ", "Input text must be a string">>)
    ELSE IF Strip(text.val) = <<>>
    THEN TextAnalysisError(<<"Keyword extraction failed: ", "Input text cannot be empty">>)
    ELSE IF top_n < 1
    THEN TextAnalysisError(<<"Keyword extraction failed: ",
                             "top_n must be a positive integer">>)
    ELSE LET words == split_whitespace(remove_punctuation(lower(text.val)))
             filtered_words == filter_words(words)
         IN IF words = <<>> THEN Value_of(<<>>)
            ELSE IF filtered_words = <<>> THEN Value_of(<<>>)
            ELSE Value_of(most_common(filtered_words, top_n))

\* \w of the sentence pattern
WordChars ==
    {Lower[i] : i \in 1..26} \cup {Upper[i] : i \in 1..26} \cup Digits \cup {"_"}

\* r'(?<!\w\.\w.)(?<![A-Z][a-z]\.)(?<=\.|\?|\!)\s' matches the character at
\* position i of s
sentence_pattern(s, i) ==
    /\ s[i] \in Whitespace
    /\ i > 1
    /\ s[i - 1] \in {".", "?", "!"}
    /\ ~ (/\ i > 4
          /\ s[i - 4] \in WordChars
          /\ s[i - 3] = "."
          /\ s[i - 2] \in WordChars
          /\ s[i - 1] # "\n")
    /\ ~ (/\ i > 3
          /\ s[i - 3] \in {Upper[k] : k \in 1..26}
          /\ s[i - 2] \in {Lower[k] : k \in 1..26}
          /\ s[i - 1] = ".")

RECURSIVE re_split(_, _)
\* re.split(sentence_pattern, text), from position from on
re_split(s, from) ==
    LET at == {i \in from..Len(s) : sentence_pattern(s, i)}
        k == CHOOSE i \in at : \A j \in at : i <= j
    IN IF at = {} THEN <<SubSeq(s, from, Len(s))>>
       ELSE <<SubSeq(s, from, k - 1)>> \o re_split(s, k + 1)

RECURSIVE strip_nonempty(_)
\* [s.strip() for s in sentences if s.strip()]
strip_nonempty(parts) ==
    IF parts = <<>> THEN <<>>
    ELSE (IF Strip(parts[1]) # <<>> THEN <<Strip(parts[1])>> ELSE <<>>)
         \o strip_nonempty(Tail(parts))

\* extract_sentences(text, max_sentences) on a text that is not blank and
\* max_sentences >= 1
extract_sentences(s, max_sentences) ==
    Slice(strip_nonempty(re_split(s, 1)), 0, max_sentences)

\* s[:k] of Python, for any integer k: a negative k counts from the end
SliceTo(s, k) ==
    IF k >= 0 THEN SubSeq(s, 1, Min(k, Len(s)))
    ELSE IF Len(s) + k > 0 THEN SubSeq(s, 1, Len(s) + k) ELSE <<>>

\* get_content_summary(text, max_length)
get_content_summary(text, max_length) ==
    IF text.type # "str"
    THEN TextAnalysisError(<<"Summary generation failed: ", "Input text must be a string">>)
    ELSE IF Strip(text.val) = <<>>
    THEN TextAnalysisError(<<"Summary generation failed: ", "Input text cannot be empty">>)
    ELSE IF max_length < 1
    THEN TextAnalysisError(<<"Summary generation failed: ",
                             "max_length must be a positive integer">>)
    ELSE LET sentences == extract_sentences(text.val, 3)
             summary == Join(sentences, <<" ">>)
         IN IF sentences = <<>> THEN Value_of(<<>>)
            ELSE IF Len(summary) > max_length
                 THEN Value_of(SliceTo(summary, max_length - 3) \o <<".", ".", ".">>)
            ELSE Value_of(summary)

---------------------------------------------------------------------------
(* views.py: TitleSuggestionView.post *)

MinContentLen == 50

\* request.data.get('content'): absent, a number, a list or a string
Value(type, val) == [type |-> type, val |-> val]

ValidContents ==
    {Value("str", Pad("a", MinContentLen)),
     Value("str", Pad(" ", MinContentLen + 1))}

InvalidContents ==
    {Value("none", <<>>), Value("int", <<"0">>), Value("int", <<"7">>),
     Value("list", Pad("a", MinContentLen)), Value("str", <<>>),
     Value("str", Pad("a", MinContentLen - 1))}

Contents == ValidContents \cup InvalidContents

\* Python truth value of the content
Truthy(c) ==
    CASE c.type = "none" -> FALSE
      [] c.type = "int" -> c.val # <<"0">>
      [] OTHER -> c.val # <<>>

\* the mutant of ValidationError: the length check accepts nothing below 51
ValidationError_off_by_one(c) ==
    IF ~ Truthy(c) THEN <<"Blog post content is required">>
    ELSE IF c.type # "str" THEN <<"Content must be a string">>
    ELSE IF Len(c.val) <= MinContentLen
         THEN <<"Blog post content must be at least 50 characters long">>
    ELSE <<>>

\* the error the validation answers with; the empty text when the content passes
ValidationError(c) ==
    IF ~ Truthy(c) THEN <<"Blog post content is required">>
    ELSE IF c.type # "str" THEN <<"Content must be a string">>
    ELSE IF Len(c.val) < MinContentLen
         THEN <<"Blog post content must be at least 50 characters long">>
    ELSE <<>>

NoValue == Value("none", <<>>)

\* analysis_data = {} (line 56): the block of a request without analysis
EmptyAnalysis == [keys |-> {}, error |-> <<>>, keywords |-> <<>>, summary |-> <<>>]

\* the block of a failed analysis (lines 69-73)
FailedAnalysis ==
    [keys |-> {"error", "keywords", "summary"},
     error |-> <<"Content analysis failed">>, keywords |-> <<>>, summary |-> <<>>]

\* lines 58-73: the keywords (words only) and the summary of the content, or
\* the failed block when either function raises
AnalysisOf(text) ==
    LET keywords == extract_keywords(Value("str", text), 5)
        summary == get_content_summary(Value("str", text), 200)
    IN IF keywords.raised \/ summary.raised THEN FailedAnalysis
       ELSE [keys |-> {"keywords", "summary"}, error |-> <<>>,
             keywords |-> [i \in 1..Len(keywords.value) |-> keywords.value[i][1]],
             summary |-> summary.value]

\* the mutant of AnalyseStep: a failed analysis ends the request before the
\* providers are called
AnalyseStep_aborts(ia, text) ==
    IF ~ ia THEN [data |-> EmptyAnalysis, events |-> <<>>, next |-> "openai"]
    ELSE [data |-> AnalysisOf(text), events |-> <<"analysis">>,
          next |-> IF AnalysisOf(text) = FailedAnalysis THEN "respond" ELSE "openai"]

\* lines 56-73: the analysis block, what was done, and where the handler
\* goes on
AnalyseStep(ia, text) ==
    IF ~ ia THEN [data |-> EmptyAnalysis, events |-> <<>>, next |-> "openai"]
    ELSE [data |-> AnalysisOf(text), events |-> <<"analysis">>, next |-> "openai"]

\* a response: its status and the keys its body holds
NoResponse ==
    [status |-> 0, keys |-> {}, error |-> <<>>, id |-> 0, suggestions |-> <<>>,
     analysis |-> EmptyAnalysis, warnings |-> <<>>]

ErrorResponse(status, error) ==
    [NoResponse EXCEPT !.status = status, !.keys = {"error"}, !.error = error]

SuccessResponse(id, suggestions, with_analysis, analysis, warnings) ==
    [status |-> 200,
     keys |-> {"id", "suggestions"}
              \cup (IF with_analysis THEN {"analysis"} ELSE {})
              \cup (IF warnings # <<>> THEN {"warnings"} ELSE {}),
     error |-> <<>>, id |-> id, suggestions |-> suggestions,
     analysis |-> IF with_analysis THEN analysis ELSE EmptyAnalysis,
     warnings |-> IF warnings # <<>> THEN warnings ELSE <<>>]

\* the mutant of NewRow: the row starts with the content as its titles
NewRow_with_titles(id, text) ==
    [id |-> id, content |-> text, suggested_titles |-> text]

\* the row objects.create(content=content) inserts: suggested_titles is null
NewRow(id, text) == [id |-> id, content |-> text, suggested_titles |-> None]

\* what one provider step of the handler leaves behind
StepResult(titles, warnings, store, done, next) ==
    [titles |-> titles, warnings |-> warnings, store |-> store, events |-> done,
     next |-> next]

\* the mutant of OpenAIStep: the service error is not caught around Provider A,
\* so that the handler goes straight to its answer
OpenAIStep_uncaught(g) ==
    IF g.raised
    THEN StepResult(<<>>, <<<<"OpenAI service: ">> \o g.msg>>, g.store,
                    <<"openai.__init__", "openai.generate_titles">>, "respond")
    ELSE StepResult(g.titles, <<>>, g.store,
                    <<"openai.__init__", "openai.generate_titles">>, "hf")

\* lines 81-89 around a generate_titles call that returned or raised g: the
\* error is caught and the handler goes on to Provider B
OpenAIStep(g) ==
    IF g.raised
    THEN StepResult(<<>>, <<<<"OpenAI service: ">> \o g.msg>>, g.store,
                    <<"openai.__init__", "openai.generate_titles">>, "hf")
    ELSE StepResult(g.titles, <<>>, g.store,
                    <<"openai.__init__", "openai.generate_titles">>, "hf")

\* everything the Provider A step can end in
OpenAIOutcomes(store, clock, text) ==
    \* the constructor raises: no API key, or the client cannot be built
    {StepResult(<<>>,
                <<<<"OpenAI service: ", "Service initialization failed: ", ExcText>>>>,
                store, <<"openai.__init__">>, "hf")}
    \* generate_titles is patched to raise a plain Exception (tests.py)
    \cup {StepResult(<<>>, <<<<"OpenAI service unavailable">>>>, store,
                     <<"openai.__init__", "openai.generate_titles">>, "hf")}
    \cup {OpenAIStep(OpenAI_generate_titles(store, clock, text, r, gf, sf)) :
            r \in OpenAIRemote, gf \in BOOLEAN, sf \in BOOLEAN}

\* lines 92-100 around a generate_titles call that returned or raised g
HFStep(g) ==
    IF g.raised
    THEN StepResult(<<>>, <<<<"HuggingFace service: ">> \o g.msg>>, g.store,
                    <<"hf.__init__", "hf.generate_titles">>, "respond")
    ELSE StepResult(g.titles, <<>>, g.store, <<"hf.__init__", "hf.generate_titles">>,
                    "respond")

\* everything the Provider B step can end in
HFOutcomes(store, clock, text) ==
    \* no API key and the local model cannot be loaded
    {StepResult(<<>>,
                <<<<"HuggingFace service: ", "Service initialization failed: ",
                    "Failed to load local model: ",
                    "Failed to load model components: ", ExcText>>>>,
                store, <<"hf.__init__">>, "respond")}
    \* generate_titles is patched to raise a plain Exception (tests.py)
    \cup {StepResult(<<>>, <<<<"HuggingFace service unavailable">>>>, store,
                     <<"hf.__init__", "hf.generate_titles">>, "respond")}
    \cup UNION {{HFStep(HF_generate_titles(store, clock, text, r, gf, sf)) :
                    r \in HFRemoteFor(api_mode), gf \in BOOLEAN, sf \in BOOLEAN} :
                api_mode \in BOOLEAN}

\* the error body of a request that got no title
NoTitlesError(warnings) ==
    IF warnings # <<>>
    THEN <<"Failed to generate titles: ">> \o Join(warnings, <<" | ">>)
    ELSE <<"No titles could be generated">>

\* the mutant of NoTitlesResponse: an empty merged list is answered as a success
NoTitlesResponse_success(warnings) ==
    [NoResponse EXCEPT !.status = 200, !.keys = {"id", "suggestions"}]

\* lines 120-131: the answer of a request that got no title
NoTitlesResponse(warnings) == ErrorResponse(500, NoTitlesError(warnings))

\* the mutant of StoreSuggestions: the titles reach the row although the
\* save raised
StoreSuggestions_despite_failure(rows, id, titles, saved) ==
    [rows EXCEPT ![id].suggested_titles = set_suggested_titles_list(titles)]

\* lines 134-139: the rows after set_suggested_titles_list and save(); when
\* either raises, the exception is swallowed and the row stays as it was
StoreSuggestions(rows, id, titles, saved) ==
    IF saved
    THEN [rows EXCEPT ![id].suggested_titles = set_suggested_titles_list(titles)]
    ELSE rows

\* a request arrives: the locals of the handler are fresh, the content is
\* validated (lines 23-42)
Post(c, ia) ==
    /\ pc \in {"idle", "done"}
    /\ nreq < MaxRequests
    /\ nreq' = nreq + 1
    /\ content' = c
    /\ include_analysis' = ia
    /\ suggestion_request' = 0
    /\ analysis_data' = EmptyAnalysis
    /\ openai_titles' = <<>>
    /\ hf_titles' = <<>>
    /\ errors' = <<>>
    /\ combined_titles' = <<>>
    /\ events' = <<>>
    /\ IF ValidationError(c) # <<>>
       THEN /\ response' = ErrorResponse(400, ValidationError(c))
            /\ pc' = "done"
       ELSE /\ response' = NoResponse
            /\ pc' = "create"
    /\ UNCHANGED <<db, cache, now, call, accepted, arg, ret>>

\* TitleSuggestionRequest.objects.create(content=content) (lines 45-52)
CreateRecord ==
    /\ pc = "create"
    /\ \E created \in BOOLEAN :
         IF created
         THEN /\ db' = Append(db, NewRow(Len(db) + 1, content.val))
              /\ suggestion_request' = Len(db) + 1
              /\ events' = Append(events, "create")
              /\ response' = response
              /\ pc' = "analysis"
         ELSE /\ response' = ErrorResponse(500, <<"Failed to process request">>)
              /\ events' = Append(events, "create_failed")
              /\ pc' = "done"
              /\ UNCHANGED <<db, suggestion_request>>
    /\ UNCHANGED <<content, include_analysis, analysis_data, openai_titles,
                   hf_titles, errors, combined_titles, nreq, cache, now, call,
                   accepted, arg, ret>>

\* the optional analysis (lines 56-73): extract_keywords and
\* get_content_summary raise on a blank text
Analyse ==
    /\ pc = "analysis"
    /\ LET step == AnalyseStep(include_analysis, content.val)
       IN /\ analysis_data' = step.data
          /\ events' = events \o step.events
          /\ pc' = step.next
    /\ UNCHANGED <<content, include_analysis, db, suggestion_request,
                   openai_titles, hf_titles, errors, combined_titles, response,
                   nreq, cache, now, call, accepted, arg, ret>>

\* Provider A is constructed and called (lines 81-89)
CallOpenAI ==
    /\ pc = "openai"
    /\ \E o \in OpenAIOutcomes(cache, now, content.val) :
         /\ openai_titles' = o.titles
         /\ errors' = errors \o o.warnings
         /\ cache' = o.store
         /\ events' = events \o o.events
         /\ pc' = o.next
    /\ UNCHANGED <<content, include_analysis, db, suggestion_request,
                   analysis_data, hf_titles, combined_titles, response, nreq,
                   now, call, accepted, arg, ret>>

\* Provider B is constructed and called (lines 92-100)
CallHF ==
    /\ pc = "hf"
    /\ \E o \in HFOutcomes(cache, now, content.val) :
         /\ hf_titles' = o.titles
         /\ errors' = errors \o o.warnings
         /\ cache' = o.store
         /\ events' = events \o o.events
         /\ pc' = o.next
    /\ UNCHANGED <<content, include_analysis, db, suggestion_request,
                   analysis_data, openai_titles, combined_titles, response,
                   nreq, now, call, accepted, arg, ret>>

\* the merge, the final save and the response (lines 102-155)
Respond ==
    /\ pc = "respond"
    /\ combined_titles' = CombineTitles(openai_titles, hf_titles)
    /\ IF combined_titles' = <<>>
       THEN /\ response' = NoTitlesResponse(errors)
            /\ UNCHANGED <<db, events>>
       ELSE /\ \E saved \in BOOLEAN :
                 /\ db' = StoreSuggestions(db, suggestion_request,
                                           combined_titles', saved)
                 /\ events' = Append(events, IF saved THEN "save" ELSE "save_failed")
            /\ response' = SuccessResponse(suggestion_request, combined_titles',
                                           include_analysis, analysis_data, errors)
    /\ pc' = "done"
    /\ UNCHANGED <<content, include_analysis, suggestion_request, analysis_data,
                   openai_titles, hf_titles, errors, nreq, cache, now, call,
                   accepted, arg, ret>>

\* no direct call of the cache service has returned
NoCall ==
    [op |-> "none", text |-> <<>>, service |-> "", suggestions |-> <<>>,
     fault |-> FALSE, ok |-> FALSE, result |-> NoneResult]

\* no direct call of a provider or of a text function has returned
NoArg == [op |-> "none"]

NoRet == [op |-> "none"]

Init ==
    /\ pc = "idle"
    /\ content = NoValue
    /\ include_analysis = FALSE
    /\ db = <<>>
    /\ suggestion_request = 0
    /\ analysis_data = EmptyAnalysis
    /\ openai_titles = <<>>
    /\ hf_titles = <<>>
    /\ errors = <<>>
    /\ combined_titles = <<>>
    /\ response = NoResponse
    /\ events = <<>>
    /\ nreq = 0
    /\ cache = {}
    /\ now = 0
    /\ call = NoCall
    /\ accepted = {}
    /\ arg = NoArg
    /\ ret = NoRet

Receive == \E c \in Contents, ia \in BOOLEAN : Post(c, ia)

Next == Receive \/ CreateRecord \/ Analyse \/ CallOpenAI \/ CallHF \/ Respond

Spec == Init /\ [][Next]_vars

---------------------------------------------------------------------------
(* The merge alone, on every pair of provider results up to MaxTitles titles *)

ATitles == {<<"a", "1">>, <<"a", "2">>}

BTitles == {<<"b", "1">>, <<"b", "2">>}

InitMerge ==
    /\ pc = "merge"
    /\ openai_titles \in SeqsUpTo(ATitles, MaxTitles)
    /\ hf_titles \in SeqsUpTo(BTitles, MaxTitles)
    /\ content = NoValue
    /\ include_analysis = FALSE
    /\ db = <<>>
    /\ suggestion_request = 0
    /\ analysis_data = EmptyAnalysis
    /\ errors = <<>>
    /\ combined_titles = <<>>
    /\ response = NoResponse
    /\ events = <<>>
    /\ nreq = 0
    /\ cache = {}
    /\ now = 0
    /\ call = NoCall
    /\ accepted = {}
    /\ arg = NoArg
    /\ ret = NoRet

\* lines 102-117 on the two results
Combine ==
    /\ pc = "merge"
    /\ combined_titles' = CombineTitles(openai_titles, hf_titles)
    /\ pc' = "merged"
    /\ UNCHANGED <<content, include_analysis, db, suggestion_request,
                   analysis_data, openai_titles, hf_titles, errors, response,
                   events, nreq, cache, now, call, accepted, arg, ret>>

NextMerge == Combine

SpecMerge == InitMerge /\ [][NextMerge]_vars

---------------------------------------------------------------------------
(* The cache service alone, called directly while the clock runs *)

\* half a time-to-live passes at each tick
TickSeconds == CACHE_TIMEOUT \div 2

\* the (content, service name) pairs of the direct calls: two contents that
\* differ in one character, the two providers, and a missing content or name
CachePairs ==
    {<<<<"a", "b">>, "openai">>, <<<<"a", "b">>, "huggingface">>,
     <<<<"a", "c">>, "openai">>, <<<<>>, "openai">>, <<<<"a", "b">>, "">>}

CacheLists == {<<>>, <<<<"t", "1">>>>, <<<<"t", "2">>, <<"t", "3">>>>}

handler_vars ==
    <<pc, content, include_analysis, db, suggestion_request, analysis_data,
      openai_titles, hf_titles, errors, combined_titles, response, events, nreq>>

InitCache == Init

\* TitleSuggestionCache.cache_suggestions(text, service, suggestions)
DirectCacheSuggestions(text, service, suggestions, fault) ==
    LET r == cache_suggestions(cache, now, text, service, suggestions, fault)
    IN /\ cache' = r.store
       /\ call' = [op |-> "set", text |-> text, service |-> service,
                   suggestions |-> suggestions, fault |-> fault, ok |-> r.ok,
                   result |-> NoneResult]
       /\ accepted' =
            IF r.ok
            THEN {e \in accepted : ~ (e.text = text /\ e.service = service)}
                 \cup {[text |-> text, service |-> service,
                        value |-> suggestions, at |-> now]}
            ELSE accepted
       /\ UNCHANGED <<handler_vars, now, arg, ret>>

\* TitleSuggestionCache.get_cached_suggestions(text, service)
DirectGetCachedSuggestions(text, service, fault) ==
    /\ call' = [op |-> "get", text |-> text, service |-> service,
                suggestions |-> <<>>, fault |-> fault, ok |-> FALSE,
                result |-> get_cached_suggestions(cache, now, text, service, fault)]
    /\ UNCHANGED <<handler_vars, cache, now, accepted, arg, ret>>

\* time passes
Tick ==
    /\ now < MaxTicks * TickSeconds
    /\ now' = now + TickSeconds
    /\ call' = NoCall
    /\ arg' = NoArg
    /\ ret' = NoRet
    /\ UNCHANGED <<handler_vars, cache, accepted>>

CacheStore ==
    \E p \in CachePairs, suggestions \in CacheLists, fault \in BOOLEAN :
        DirectCacheSuggestions(p[1], p[2], suggestions, fault)

CacheLookup ==
    \E p \in CachePairs, fault \in BOOLEAN :
        DirectGetCachedSuggestions(p[1], p[2], fault)

NextCache == CacheStore \/ CacheLookup \/ Tick

SpecCache == InitCache /\ [][NextCache]_vars

---------------------------------------------------------------------------
(* The two providers alone: generate_titles called again and again on one *)
(* content while the clock runs                                            *)

\* the content of the direct generate_titles calls
GenContent == Pad("a", MinContentLen)

\* what the direct call leaves in arg and ret, and the record of the lists
\* that came from the external service and were handed to a healthy store
Generated(provider, text, remote, get_fault, set_fault, g) ==
    /\ cache' = g.store
    /\ arg' = [op |-> "generate_titles", provider |-> provider, text |-> text,
               remote |-> remote, get_fault |-> get_fault, set_fault |-> set_fault]
    /\ ret' = [op |-> "generate_titles", raised |-> g.raised, titles |-> g.titles,
               msg |-> g.msg, external |-> g.external]
    /\ accepted' =
         IF g.external /\ ~ g.raised /\ g.titles # <<>> /\ ~ set_fault
         THEN {e \in accepted : ~ (e.text = text /\ e.service = provider)}
              \cup {[text |-> text, service |-> provider, value |-> g.titles,
                     at |-> now]}
         ELSE accepted
    /\ call' = NoCall
    /\ UNCHANGED <<handler_vars, now>>

\* OpenAITitleGenerator().generate_titles(content)
GenerateOpenAI ==
    \E remote \in OpenAIRemote, get_fault \in BOOLEAN, set_fault \in BOOLEAN :
        Generated("openai", GenContent, remote, get_fault, set_fault,
                  OpenAI_generate_titles(cache, now, GenContent, remote,
                                         get_fault, set_fault))

\* HuggingFaceTitleGenerator().generate_titles(content), in either mode
GenerateHF ==
    \E api_mode \in BOOLEAN :
        \E remote \in HFRemoteFor(api_mode), get_fault \in BOOLEAN,
           set_fault \in BOOLEAN :
            Generated("huggingface", GenContent, remote, get_fault, set_fault,
                      HF_generate_titles(cache, now, GenContent, remote,
                                         get_fault, set_fault))

InitGen == Init

NextGen == GenerateOpenAI \/ GenerateHF \/ Tick

SpecGen == InitGen /\ [][NextGen]_vars

---------------------------------------------------------------------------
(* Provider A's parser alone, on every response of up to MaxLines lines *)

MaxLines == 2

\* the titles the lines carry: plain, with a period inside, starting with a
\* digit or a dash or a listed prefix, and of 60 and 61 characters
ParseTitles ==
    {<<"a", "b">>, <<"a", ".", "b">>, <<"7", " ", "c">>, <<"-", "d">>,
     <<"t", "i", "t", "l", "e", " ", "x">>,
     Pad("x", TitleMaxLen), Pad("x", TitleMaxLen + 1)}

\* "5 Ways to Use Python 3.9"
PythonTitle ==
    <<"5", " ", "W", "a", "y", "s", " ", "t", "o", " ", "U", "s",
      "e", " ", "P", "y", "t", "h", "o", "n", " ", "3", ".", "9">>

\* the lines of a response: "N. T", "- T", or a bare text
ParseLines ==
    [form : {"numbered"}, n : {"1", "7"}, title : ParseTitles]
    \cup [form : {"dash"}, n : {""}, title : ParseTitles]
    \cup [form : {"bare"}, n : {""},
          title : {<<>>, <<"a", "b">>, <<"7", " ", "c">>,
                   PythonTitle, <<"h", "e", "r", "e", " ", "x">>,
                   Pad("x", TitleMaxLen + 1)}]

\* the text of one line
RenderLine(l) ==
    CASE l.form = "numbered" -> <<l.n, ".", " ">> \o l.title
      [] l.form = "dash" -> <<"-", " ">> \o l.title
      [] OTHER -> l.title

\* response.choices[0].message.content: the lines joined by newlines
RenderLines(lines) == Join([i \in 1..Len(lines) |-> RenderLine(lines[i])], <<"\n">>)

InitParse ==
    /\ pc = "parse"
    /\ arg \in {[op |-> "process_response", lines |-> lines,
                 text |-> RenderLines(lines)] : lines \in SeqsUpTo(ParseLines, MaxLines)}
    /\ ret = NoRet
    /\ content = NoValue
    /\ include_analysis = FALSE
    /\ db = <<>>
    /\ suggestion_request = 0
    /\ analysis_data = EmptyAnalysis
    /\ openai_titles = <<>>
    /\ hf_titles = <<>>
    /\ errors = <<>>
    /\ combined_titles = <<>>
    /\ response = NoResponse
    /\ events = <<>>
    /\ nreq = 0
    /\ cache = {}
    /\ now = 0
    /\ call = NoCall
    /\ accepted = {}

\* self._process_response(response)
ProcessResponse ==
    /\ pc = "parse"
    /\ ret' = [op |-> "process_response", titles |-> process_response(arg.text)]
    /\ pc' = "parsed"
    /\ UNCHANGED <<content, include_analysis, db, suggestion_request,
                   analysis_data, openai_titles, hf_titles, errors,
                   combined_titles, response, events, nreq, cache, now, call,
                   accepted, arg>>

NextParse == ProcessResponse

SpecParse == InitParse /\ [][NextParse]_vars

---------------------------------------------------------------------------
(* The text analysis alone: extract_keywords on every text of up to        *)
(* MaxWords words, get_content_summary on every text of up to MaxSentences *)
(* sentences                                                                *)

MaxWords == 4
MaxTopN == 2
MaxSentences == 4
MaxLength == 8

\* a stop word, a word in two spellings, another word, a short word
KeywordWords ==
    {<<"t", "h", "e">>, <<"c", "a", "t">>, <<"C", "a", "t">>, <<"m", "a", "t">>,
     <<"o", "x">>}

\* "the cat sat on the cat mat"
CatWords ==
    <<<<"t", "h", "e">>, <<"c", "a", "t">>, <<"s", "a", "t">>, <<"o", "n">>,
      <<"t", "h", "e">>, <<"c", "a", "t">>, <<"m", "a", "t">>>>

\* what stands between two words or two sentences of a text
Separators == {<<" ">>, <<",", "\n">>}

\* a plain sentence, one with a title, one that starts with an abbreviation,
\* an exclamation
Sentences ==
    {<<"H", "i", ".">>, <<"M", "r", ".", " ", "X", " ", "o", "k", "?">>,
     <<"e", ".", "g", ".", " ", "a">>, <<"G", "o", "!">>}

\* what is passed for the text when it is not a string of words
NoTexts == {Value("none", <<>>), Value("int", <<"7">>), Value("str", <<" ", "\n">>)}

AnalysisArg(op, text, n, parts) == [op |-> op, text |-> text, n |-> n, parts |-> parts]

KeywordArgs ==
    {AnalysisArg("extract_keywords", Value("str", Join(parts, sep)), n, parts) :
        parts \in SeqsUpTo(KeywordWords, MaxWords), sep \in Separators,
        n \in 0..MaxTopN}
    \cup {AnalysisArg("extract_keywords", Value("str", Join(CatWords, <<" ">>)), 1,
                      CatWords)}
    \cup {AnalysisArg("extract_keywords", text, 1, <<>>) : text \in NoTexts}

SummaryArgs ==
    {AnalysisArg("get_content_summary", Value("str", Join(parts, sep)), n, parts) :
        parts \in SeqsUpTo(Sentences, MaxSentences), sep \in Separators,
        n \in 0..MaxLength}
    \cup {AnalysisArg("get_content_summary", text, 1, <<>>) : text \in NoTexts}

InitAnalysis ==
    /\ pc = "analyse"
    /\ arg \in KeywordArgs \cup SummaryArgs
    /\ ret = NoRet
    /\ content = NoValue
    /\ include_analysis = FALSE
    /\ db = <<>>
    /\ suggestion_request = 0
    /\ analysis_data = EmptyAnalysis
    /\ openai_titles = <<>>
    /\ hf_titles = <<>>
    /\ errors = <<>>
    /\ combined_titles = <<>>
    /\ response = NoResponse
    /\ events = <<>>
    /\ nreq = 0
    /\ cache = {}
    /\ now = 0
    /\ call = NoCall
    /\ accepted = {}

\* what a returned call leaves in ret
Analysed(r) ==
    /\ ret' = [op |-> arg.op, raised |-> r.raised, msg |-> r.msg, value |-> r.value]
    /\ pc' = "analysed"
    /\ UNCHANGED <<content, include_analysis, db, suggestion_request,
                   analysis_data, openai_titles, hf_titles, errors,
                   combined_titles, response, events, nreq, cache, now, call,
                   accepted, arg>>

\* TextAnalyzer.extract_keywords(text, top_n)
ExtractKeywords ==
    /\ pc = "analyse"
    /\ arg.op = "extract_keywords"
    /\ Analysed(extract_keywords(arg.text, arg.n))

\* TextAnalyzer.get_content_summary(text, max_length)
GetContentSummary ==
    /\ pc = "analyse"
    /\ arg.op = "get_content_summary"
    /\ Analysed(get_content_summary(arg.text, arg.n))

NextAnalysis == ExtractKeywords \/ GetContentSummary

SpecAnalysis == InitAnalysis /\ [][NextAnalysis]_vars

---------------------------------------------------------------------------
(* Concurrent generate_titles calls of one provider for one content: the   *)
(* lookup, the external call and the store of each call are separate steps *)
(* that interleave with those of the other calls                            *)

NumCallers == 2

Callers == 1..NumCallers

\* the part of generate_titles between the miss and the store (the external
\* call and the parsing or cleaning of what came back): the call on an empty
\* store that cannot be written
ExternalOutcome(provider, clock, text, remote) ==
    IF provider = "openai"
    THEN OpenAI_generate_titles({}, clock, text, remote, FALSE, TRUE)
    ELSE HF_generate_titles({}, clock, text, remote, FALSE, TRUE)

\* what the external service of a provider can do on one call
RemotesOf(provider) == IF provider = "openai" THEN OpenAIRemote ELSE HFRemote

\* a call that has not returned
NoOutcome == [returned |-> FALSE, raised |-> FALSE, titles |-> <<>>, external |-> FALSE]

Outcome(raised, titles, external) ==
    [returned |-> TRUE, raised |-> raised, titles |-> titles, external |-> external]

InitRace ==
    /\ pc = "idle"
    /\ content = NoValue
    /\ include_analysis = FALSE
    /\ db = <<>>
    /\ suggestion_request = 0
    /\ analysis_data = EmptyAnalysis
    /\ openai_titles = <<>>
    /\ hf_titles = <<>>
    /\ errors = <<>>
    /\ combined_titles = <<>>
    /\ response = NoResponse
    /\ events = <<>>
    /\ nreq = 0
    /\ cache = {}
    /\ now = 0
    /\ call = NoCall
    /\ accepted = {}
    /\ \E provider \in {"openai", "huggingface"} :
         arg = [op |-> "concurrent generate_titles", provider |-> provider,
                text |-> GenContent,
                step |-> [p \in Callers |-> "lookup"],
                got |-> [p \in Callers |-> <<>>],
                wrote |-> <<>>]
    /\ ret = [op |-> "concurrent generate_titles",
              out |-> [p \in Callers |-> NoOutcome],
              looked |-> FALSE, later |-> NoneResult]

\* cached_titles = TitleSuggestionCache.get_cached_suggestions(...) of call p
RaceLookup(p) ==
    /\ arg.op = "concurrent generate_titles"
    /\ arg.step[p] = "lookup"
    /\ LET cached_titles ==
               get_cached_suggestions(cache, now, arg.text, arg.provider, FALSE)
       IN IF cached_titles.some
          THEN /\ arg' = [arg EXCEPT !.step[p] = "done"]
               /\ ret' = [ret EXCEPT !.out[p] = Outcome(FALSE, cached_titles.value, FALSE)]
          ELSE /\ arg' = [arg EXCEPT !.step[p] = "fetch"]
               /\ ret' = ret
    /\ UNCHANGED <<handler_vars, cache, now, call, accepted>>

\* the external call of call p and the processing of its answer
RaceFetch(p) ==
    /\ arg.op = "concurrent generate_titles"
    /\ arg.step[p] = "fetch"
    /\ \E remote \in RemotesOf(arg.provider) :
         LET g == ExternalOutcome(arg.provider, now, arg.text, remote)
         IN IF g.raised \/ g.titles = <<>>
            THEN /\ arg' = [arg EXCEPT !.step[p] = "done"]
                 /\ ret' = [ret EXCEPT !.out[p] = Outcome(g.raised, <<>>, TRUE)]
            ELSE /\ arg' = [arg EXCEPT !.step[p] = "store", !.got[p] = g.titles]
                 /\ ret' = ret
    /\ UNCHANGED <<handler_vars, cache, now, call, accepted>>

\* TitleSuggestionCache.cache_suggestions(content, service_name, titles) of
\* call p, and its return
RaceStore(p) ==
    /\ arg.op = "concurrent generate_titles"
    /\ arg.step[p] = "store"
    /\ cache' = cache_suggestions(cache, now, arg.text, arg.provider, arg.got[p],
                                  FALSE).store
    /\ arg' = [arg EXCEPT !.step[p] = "done", !.wrote = Append(@, p)]
    /\ ret' = [ret EXCEPT !.out[p] = Outcome(FALSE, arg.got[p], TRUE)]
    /\ UNCHANGED <<handler_vars, now, call, accepted>>

\* a lookup after all the calls returned
RaceLater ==
    /\ arg.op = "concurrent generate_titles"
    /\ \A p \in Callers : arg.step[p] = "done"
    /\ ~ ret.looked
    /\ ret' = [ret EXCEPT !.looked = TRUE,
                          !.later = get_cached_suggestions(cache, now, arg.text,
                                                           arg.provider, FALSE)]
    /\ UNCHANGED <<handler_vars, cache, now, call, accepted, arg>>

NextRace ==
    \/ \E p \in Callers : RaceLookup(p)
    \/ \E p \in Callers : RaceFetch(p)
    \/ \E p \in Callers : RaceStore(p)
    \/ RaceLater

SpecRace == InitRace /\ [][NextRace]_vars

---------------------------------------------------------------------------
(* Properties *)

\* the events of the request in progress
Happened(e) == \E i \in 1..Len(events) : events[i] = e

ProviderEvents ==
    {"openai.__init__", "openai.generate_titles", "hf.__init__", "hf.generate_titles"}

\* the content is missing, empty, not a string, or a string below 50 characters
Rejectable(c) ==
    \/ c.type = "none"
    \/ c.type # "str"
    \/ c.val = <<>>
    \/ Len(c.val) < 50

\* the request in progress has answered after both provider steps
Answered == pc = "done" /\ Happened("hf.__init__")

\* C1: a request whose content is missing, empty, not a string or a string
\* shorter than 50 characters is answered 400 and has done nothing: no record
\* is created, no provider is constructed or called, the cache is untouched;
\* a content of exactly 50 characters passes the check.
C1_InvalidContentRejected ==
    /\ (nreq > 0 /\ Rejectable(content)) =>
          /\ pc = "done"
          /\ response.status = 400
          /\ response.keys = {"error"}
          /\ events = <<>>
          /\ suggestion_request = 0
          /\ Len(db) < nreq
          /\ (nreq = 1 => db = <<>> /\ cache = {})
    /\ (nreq > 0 /\ content.type = "str" /\ Len(content.val) = 50) =>
          response.status # 400 /\ pc # "idle"

C1_Witness ==
    /\ pc = "done"
    /\ content = Value("str", Pad("a", 49))
    /\ response.status = 400

\* C2: on valid content exactly one record is created, with an empty title
\* list, before any provider is constructed or called; when the creation
\* fails the request ends with a 500 and no provider is constructed or called.
C2_RecordCreatedFirst ==
    (nreq > 0 /\ ~ Rejectable(content)) =>
        /\ Cardinality({i \in 1..Len(events) :
                            events[i] \in {"create", "create_failed"}}) =
             (IF pc = "create" THEN 0 ELSE 1)
        /\ pc # "create" =>
              Len(events) > 0 /\ events[1] \in {"create", "create_failed"}
        /\ Len(db) <= nreq
        /\ Happened("create") =>
              /\ suggestion_request = Len(db)
              /\ db[suggestion_request].id = suggestion_request
              /\ db[suggestion_request].content = content.val
              /\ ~ Happened("save") =>
                    get_suggested_titles_list(db[suggestion_request].suggested_titles)
                        = <<>>
        /\ Happened("create_failed") =>
              /\ pc = "done"
              /\ response.status = 500
              /\ \A e \in ProviderEvents : ~ Happened(e)
              /\ suggestion_request = 0
              /\ Len(db) < nreq

C2_Witness ==
    /\ pc = "done"
    /\ Happened("create")
    /\ Happened("openai.generate_titles")
    /\ Happened("hf.generate_titles")
    /\ response.status = 500
    /\ Len(db) = 1

\* C3: when Provider A returned at least 2 titles and Provider B at least 1,
\* the merged list is A's first, A's second, B's first, whatever else they hold.
C3_MergeTwoPlusOne ==
    (pc = "merged" /\ Len(openai_titles) >= 2 /\ Len(hf_titles) >= 1) =>
        combined_titles = <<openai_titles[1], openai_titles[2], hf_titles[1]>>

C3_Witness ==
    /\ pc = "merged"
    /\ Len(openai_titles) = 4
    /\ Len(hf_titles) = 3
    /\ combined_titles = <<openai_titles[1], openai_titles[2], hf_titles[1]>>

\* C4: when Provider B returned nothing (or raised) and Provider A returned at
\* least 3 titles, the request is answered 200 with A's first three titles.
C4_FallbackToThirdOfA ==
    (Answered /\ hf_titles = <<>> /\ Len(openai_titles) >= 3) =>
        /\ combined_titles = SubSeq(openai_titles, 1, 3)
        /\ response.status = 200
        /\ response.suggestions = SubSeq(openai_titles, 1, 3)

C4_Witness ==
    /\ Answered
    /\ hf_titles = <<>>
    /\ Len(openai_titles) = 4
    /\ Len(errors) = 1
    /\ response.status = 200
    /\ Len(response.suggestions) = 3

\* C5: the merge fills the list until it holds 3 titles or both providers are
\* exhausted, so that it always holds min(3, |A| + |B|) titles.
C5_MergeFillsToQuota ==
    pc = "merged" =>
        Len(combined_titles) = Min(3, Len(openai_titles) + Len(hf_titles))

\* C6: the merged list never holds more than 3 titles, a 200 response carries
\* between 1 and 3 suggestions, and an empty merged list is never answered 200.
C6_QuotaOfThree ==
    /\ Len(combined_titles) <= 3
    /\ response.status = 200 =>
          /\ "suggestions" \in response.keys
          /\ Len(response.suggestions) \in 1..3
          /\ response.suggestions = combined_titles
    /\ (Answered /\ combined_titles = <<>>) => response.status # 200

C6_Witness ==
    /\ Answered
    /\ Len(openai_titles) = 4
    /\ Len(hf_titles) = 3
    /\ response.status = 200
    /\ Len(response.suggestions) = 3

\* C7: when each provider returned an empty list or raised, the request is
\* answered 500 without suggestions, and the record created at its start is
\* still there with an empty title list: it was never updated.
C7_TotalFailure ==
    (Answered /\ openai_titles = <<>> /\ hf_titles = <<>>) =>
        /\ response.status = 500
        /\ response.keys = {"error"}
        /\ response.suggestions = <<>>
        /\ ~ Happened("save") /\ ~ Happened("save_failed")
        /\ suggestion_request \in 1..Len(db)
        /\ db[suggestion_request].content = content.val
        /\ db[suggestion_request].suggested_titles = None
        /\ get_suggested_titles_list(db[suggestion_request].suggested_titles) = <<>>

C7_Witness ==
    /\ Answered
    /\ openai_titles = <<>>
    /\ hf_titles = <<>>
    /\ Len(errors) = 2
    /\ response.status = 500
    /\ Len(db) = 1

\* the warning names Provider A / Provider B
WarnsOfOpenAI(w) == w[1] \in {"OpenAI service: ", "OpenAI service unavailable"}

WarnsOfHF(w) == w[1] \in {"HuggingFace service: ", "HuggingFace service unavailable"}

\* C8: whatever Provider A did, Provider B is constructed (and, once
\* constructed, called) after it; when exactly one provider raised and the
\* other returned at least one title, the answer is a 200 with titles of the
\* other provider and one warning, which names the provider that raised; a
\* 200 has no warnings key when no provider raised.
C8_SoftIndependentFailures ==
    /\ (pc \in {"respond", "done"} /\ Happened("openai.__init__")) =>
          \E i, j \in 1..Len(events) :
              i < j /\ events[i] = "openai.__init__" /\ events[j] = "hf.__init__"
    /\ (Answered /\ Len(errors) = 1 /\ hf_titles # <<>>) =>
          /\ openai_titles = <<>>
          /\ response.status = 200
          /\ response.suggestions # <<>>
          /\ IsPrefix(response.suggestions, hf_titles)
          /\ "warnings" \in response.keys
          /\ Len(response.warnings) = 1
          /\ WarnsOfOpenAI(response.warnings[1])
    /\ (Answered /\ Len(errors) = 1 /\ openai_titles # <<>>) =>
          /\ hf_titles = <<>>
          /\ response.status = 200
          /\ response.suggestions # <<>>
          /\ IsPrefix(response.suggestions, openai_titles)
          /\ "warnings" \in response.keys
          /\ Len(response.warnings) = 1
          /\ WarnsOfHF(response.warnings[1])
    /\ (response.status = 200 /\ errors = <<>>) =>
          "warnings" \notin response.keys /\ response.warnings = <<>>

C8_Witness ==
    /\ Answered
    /\ Len(errors) = 1
    /\ WarnsOfOpenAI(errors[1])
    /\ Happened("hf.generate_titles")
    /\ Len(hf_titles) = 3
    /\ response.status = 200
    /\ response.warnings = errors

\* C9: after a 200 whose final save succeeded, the titles read back from the
\* record with get_suggested_titles_list are the suggestions of the response.
C9_StoredTitlesRoundTrip ==
    (pc = "done" /\ response.status = 200 /\ Happened("save")) =>
        get_suggested_titles_list(db[suggestion_request].suggested_titles)
            = response.suggestions

\* what the direct calls so far make a lookup of (text, service) return now:
\* the list of the last successful cache_suggestions of that pair, while its
\* time-to-live lasts
Expected(text, service) ==
    LET live == {e \in accepted : /\ e.text = text
                                  /\ e.service = service
                                  /\ now - e.at < 86400}
    IN IF live = {} THEN NoneResult ELSE Some((CHOOSE e \in live : TRUE).value)

\* C10: a lookup without a store fault returns the list that the last
\* successful cache_suggestions of the same content and the same service name
\* stored, while its time-to-live lasts, and none otherwise: an entry stored
\* under another service name or another content is never returned.
C10_CacheRoundTrip ==
    /\ \A p \in CachePairs :
          get_cached_suggestions(cache, now, p[1], p[2], FALSE) = Expected(p[1], p[2])
    /\ (call.op = "get" /\ ~ call.fault) =>
          call.result = Expected(call.text, call.service)
    /\ (call.op = "set" /\ call.ok) =>
          /\ Expected(call.text, call.service).some
          /\ Expected(call.text, call.service).value # <<>>

C10_Witness ==
    /\ call.op = "get"
    /\ ~ call.fault
    /\ call.text = <<"a", "b">>
    /\ call.service = "openai"
    /\ call.result.some
    /\ now > 0
    /\ Expected(<<"a", "c">>, "openai") = NoneResult
    /\ Expected(<<"a", "b">>, "huggingface").some
    /\ Expected(<<"a", "b">>, "huggingface") # call.result

\* C11: a cache_suggestions call with an empty list, or with an empty content
\* or service name, returns false and leaves the store as it was; any other
\* call without a store fault returns true and leaves in the store, under
\* the key of (content, service name), the list with an expiry 86400 seconds
\* after the call, every other key untouched; no entry of the store ever
\* holds an empty list.
C11_CacheSuggestionsFrame ==
    /\ [][call'.op = "set" =>
            LET wellformed == /\ call'.suggestions # <<>>
                              /\ call'.text # <<>>
                              /\ call'.service # ""
                k == get_cache_key(call'.text, call'.service)
            IN /\ ~ wellformed => (~ call'.ok /\ cache' = cache)
               /\ (wellformed /\ ~ call'.fault) =>
                     /\ call'.ok
                     /\ cache' = {e \in cache : e.key # k}
                                    \cup {[key |-> k, value |-> call'.suggestions,
                                           expires |-> now + 86400]}]_vars
    /\ [](\A e \in cache : e.value # <<>>)

\* an empty list was refused while the store held entries
C11_Witness ==
    /\ call.op = "set"
    /\ call.suggestions = <<>>
    /\ call.text # <<>>
    /\ call.service # ""
    /\ ~ call.fault
    /\ ~ call.ok
    /\ cache # {}

\* a generate_titles call during which the lookup or the store faulted
FaultedCall ==
    /\ arg.op = "generate_titles"
    /\ (arg.get_fault \/ (ret.external /\ arg.set_fault))

\* C12: a fault of the store or of the key generation makes
\* get_cached_suggestions return none and cache_suggestions return false
\* with the store as it was; a generate_titles call of either provider
\* during which the cache faulted has called its external service and
\* returns what that service gave: the parsed or cleaned titles when texts
\* came back, the service error when the service failed.
C12_CacheFailOpen ==
    /\ \A service \in {"openai", "huggingface"} :
          /\ get_cached_suggestions(cache, now, GenContent, service, TRUE) = NoneResult
          /\ \A suggestions \in CacheLists :
                cache_suggestions(cache, now, GenContent, service, suggestions, TRUE)
                    = [ok |-> FALSE, store |-> cache]
    /\ FaultedCall =>
          /\ ret.external
          /\ arg.remote.kind = "text" =>
                (~ ret.raised /\ ret.titles = process_response(arg.remote.text))
          /\ arg.remote.kind = "texts" =>
                (~ ret.raised /\ ret.titles = CleanTitles(arg.remote.texts))
          /\ arg.remote.kind \notin {"text", "texts"} => ret.raised

\* the lookup and the store both faulted while the store held a live list for
\* the key, and the call returned the other list the service gave
C12_Witness ==
    /\ arg.op = "generate_titles"
    /\ arg.get_fault
    /\ arg.set_fault
    /\ ~ ret.raised
    /\ ret.titles # <<>>
    /\ cache_get(cache, now, get_cache_key(arg.text, arg.provider)).some
    /\ cache_get(cache, now, get_cache_key(arg.text, arg.provider)).value # ret.titles

\* a message carries the text of an exception
Mentions(msg, fragment) == \E i \in 1..Len(msg) : msg[i] = fragment

\* C13: the response body does not depend on the message text of an
\* exception raised inside a provider, the persistence or the analysis: the
\* text of the exception, whatever it is, occurs neither in the error string
\* nor in any warning of the response.
C13_NoExceptionTextInBody ==
    /\ ~ Mentions(response.error, ExcText)
    /\ \A i \in 1..Len(response.warnings) :
          ~ Mentions(response.warnings[i], ExcText)

RECURSIVE TitlesWithin(_, _)
\* the titles of the lines that are at most n characters long, in line order
TitlesWithin(lines, n) ==
    IF lines = <<>> THEN <<>>
    ELSE (IF Len(lines[1].title) <= n THEN <<lines[1].title>> ELSE <<>>)
         \o TitlesWithin(Tail(lines), n)

\* C14: of a response whose lines are "N. T" (N a digit) or "- T", T a
\* non-empty title, the parser returns the titles T themselves, number, dot
\* and dash removed, in line order, those longer than 60 characters left out.
C14_NumberedAndDashLines ==
    (/\ ret.op = "process_response"
     /\ \A i \in 1..Len(arg.lines) : arg.lines[i].form \in {"numbered", "dash"})
        => ret.titles = TitlesWithin(arg.lines, 60)

\* a numbered line whose title holds a period and a dash line whose title
\* is too long were parsed
C14_Witness ==
    /\ ret.op = "process_response"
    /\ Len(arg.lines) = 2
    /\ arg.lines[1].form = "numbered"
    /\ arg.lines[1].title = <<"a", ".", "b">>
    /\ arg.lines[2].form = "dash"
    /\ Len(arg.lines[2].title) = 61
    /\ ret.titles = <<<<"a", ".", "b">>>>

\* a line the claim calls a bare title: not empty, at most 60 characters, not
\* starting with a digit followed by a period, nor with a dash, nor with one
\* of the listed words
BareTitle(line) ==
    /\ line # <<>>
    /\ Len(line) <= 60
    /\ ~ (Len(line) >= 2 /\ line[1] \in Digits /\ line[2] = ".")
    /\ ~ StartsWith(line, <<"-">>)
    /\ ~ \E prefix \in BannedPrefixes : StartsWith(line, prefix)

\* C20: a line is split at its first period only when it starts with a digit
\* followed by a period; of a response made of bare titles the parser
\* returns every line whole and unchanged.
C20_BareLinesKeptWhole ==
    (/\ ret.op = "process_response"
     /\ \A i \in 1..Len(arg.lines) :
          arg.lines[i].form = "bare" /\ BareTitle(arg.lines[i].title))
        => ret.titles = [i \in 1..Len(arg.lines) |-> arg.lines[i].title]

\* the lowercased tokens of the text of the call, in text order
Tokens == [i \in 1..Len(arg.parts) |-> lower(arg.parts[i])]

Occurrences(w) == Cardinality({i \in 1..Len(Tokens) : Tokens[i] = w})

FirstSeen(w) ==
    CHOOSE i \in 1..Len(Tokens) : Tokens[i] = w /\ \A j \in 1..(i - 1) : Tokens[j] # w

\* (w, n) comes before (v, m) in the order of the result
Before(w, n, v, m) == n > m \/ (n = m /\ FirstSeen(w) < FirstSeen(v))

\* C15: extract_keywords(text, top_n) raises a TextAnalysisError when the
\* text is not a string or empty or top_n < 1; on a text of words and
\* top_n >= 1 it returns at most top_n (word, count) pairs, no word a stop
\* word or shorter than 3 characters, each count the number of occurrences
\* of the lowercased token, in descending count and, among equal counts, in
\* first-seen order, and no token left out comes before one returned.
C15_ExtractKeywords ==
    ret.op = "extract_keywords" =>
       /\ (arg.text.type # "str" \/ arg.text.val = <<>> \/ arg.n < 1) =>
             (ret.raised /\ ret.msg[1] = "Keyword extraction failed: ")
       /\ (arg.text.type = "str" /\ Strip(arg.text.val) # <<>> /\ arg.n >= 1) =>
             LET K == ret.value
                 returned == {K[i][1] : i \in 1..Len(K)}
                 eligible == {w \in {Tokens[i] : i \in 1..Len(Tokens)} :
                                w \notin stop_words /\ Len(w) > 2}
             IN /\ ~ ret.raised
                /\ Len(K) <= arg.n
                /\ \A i \in 1..Len(K) :
                      /\ K[i][1] \notin stop_words
                      /\ Len(K[i][1]) > 2
                      /\ K[i][2] = Occurrences(K[i][1])
                      /\ K[i][2] > 0
                /\ \A i \in 1..Len(K), j \in 1..Len(K) :
                      i < j => Before(K[i][1], K[i][2], K[j][1], K[j][2])
                /\ \A w \in eligible \ returned :
                      /\ Len(K) = arg.n
                      /\ \A i \in 1..Len(K) :
                            Before(K[i][1], K[i][2], w, Occurrences(w))

\* extract_keywords("the cat sat on the cat mat", top_n=1) gave [("cat", 2)]
C15_Witness ==
    /\ ret.op = "extract_keywords"
    /\ arg.parts = CatWords
    /\ arg.n = 1
    /\ ret.value = <<<<<<"c", "a", "t">>, 2>>>>

\* C16: for a text that is not empty and max_length >= 1,
\* get_content_summary returns a string of at most max_length characters.
C16_SummaryWithinMaxLength ==
    (/\ ret.op = "get_content_summary"
     /\ arg.text.type = "str"
     /\ Strip(arg.text.val) # <<>>
     /\ arg.n >= 1)
        => (~ ret.raised /\ Len(ret.value) <= arg.n)

\* the store holds the list under the key of (text, service), set at time at
Holds(store, text, service, value, at) ==
    [key |-> get_cache_key(text, service), value |-> value,
     expires |-> at + 86400] \in store

\* C17: a non-empty list that a generate_titles call got from the external
\* service and handed to a healthy store is in the cache under (content,
\* provider) with a time-to-live of 86400 seconds; a later call for the same
\* content and provider within that time, the lookup not faulting, returns
\* that list without calling the external service and leaves the cache as
\* it is; a call that returns no title leaves the cache as it is.
C17_CacheFirstThenPopulate ==
    /\ [](\A e \in accepted : Holds(cache, e.text, e.service, e.value, e.at))
    /\ [][arg'.op = "generate_titles" =>
            LET live == {e \in accepted : /\ e.text = arg'.text
                                          /\ e.service = arg'.provider
                                          /\ now < e.at + 86400}
            IN /\ (~ arg'.get_fault) =>
                     \A e \in live : /\ ~ ret'.raised
                                     /\ ret'.titles = e.value
                                     /\ ~ ret'.external
                                     /\ cache' = cache
               /\ ret'.titles = <<>> => cache' = cache
               /\ (ret'.external /\ ret'.titles # <<>> /\ ~ arg'.set_fault) =>
                     Holds(cache', arg'.text, arg'.provider, ret'.titles, now)]_vars

\* half a time-to-live after Provider B stored its list, a call returned it
\* from the cache although the service had another list to give
C17_Witness ==
    /\ arg.op = "generate_titles"
    /\ arg.provider = "huggingface"
    /\ ~ arg.get_fault
    /\ ~ ret.external
    /\ ret.titles # <<>>
    /\ arg.remote.kind = "texts"
    /\ CleanTitles(arg.remote.texts) # ret.titles
    /\ now > 0
    /\ \E e \in accepted : e.service = "huggingface" /\ e.at < now /\ e.value = ret.titles

\* C18: no string in a list that Provider B's generate_titles returns, or
\* that the cache holds under Provider B's key, is empty.
C18_NoEmptyTitleFromB ==
    /\ (arg.op = "generate_titles" /\ arg.provider = "huggingface") =>
          \A i \in 1..Len(ret.titles) : ret.titles[i] # <<>>
    /\ \A e \in cache :
          e.key.service = "huggingface" =>
             \A i \in 1..Len(e.value) : e.value[i] # <<>>

\* C19: every title of every list that Provider A's generate_titles returns,
\* parsed or served from the cache, is non-empty and at most 60 characters
\* long.
C19_ProviderATitlesBounded ==
    (arg.op = "generate_titles" /\ arg.provider = "openai") =>
        \A i \in 1..Len(ret.titles) :
            ret.titles[i] # <<>> /\ Len(ret.titles[i]) <= 60

\* Provider A served its list from the cache while the cache also held a
\* list of Provider B for the same content
C19_Witness ==
    /\ arg.op = "generate_titles"
    /\ arg.provider = "openai"
    /\ ~ ret.external
    /\ ret.titles # <<>>
    /\ now > 0
    /\ \E e \in cache : e.key.service = "huggingface" /\ e.expires > now

\* C21: when the merged list is not empty and storing it on the record
\* raises, the request is answered with a 200 that carries the id of the
\* record and exactly the merged titles, and the stored record keeps its
\* empty title list.
C21_FinalSaveFailureNotFatal ==
    Happened("save_failed") =>
       /\ pc = "done"
       /\ combined_titles # <<>>
       /\ combined_titles = CombineTitles(openai_titles, hf_titles)
       /\ response.status = 200
       /\ {"id", "suggestions"} \subseteq response.keys
       /\ "error" \notin response.keys
       /\ response.id = suggestion_request
       /\ response.suggestions = combined_titles
       /\ db[suggestion_request].suggested_titles = None
       /\ get_suggested_titles_list(db[suggestion_request].suggested_titles) = <<>>

\* the save of a merged list of three titles raised
C21_Witness ==
    /\ Happened("save_failed")
    /\ Len(combined_titles) = 3
    /\ response.status = 200

\* the analysis of the request in progress was asked for and failed
AnalysisFailed == Happened("analysis") /\ "error" \in analysis_data.keys

\* C22: a failed analysis does not abort the request: both providers are
\* constructed after it, the status and the suggestions of the answer are
\* what the providers' results alone make them, and a success carries the
\* degraded block (error flag, no keywords, empty summary); a success
\* response holds an analysis block exactly when include_analysis was set.
C22_AnalysisNeverAborts ==
    /\ (pc = "done" /\ AnalysisFailed) =>
          /\ \E i, j, k \in 1..Len(events) :
                /\ i < j /\ j < k
                /\ events[i] = "analysis"
                /\ events[j] = "openai.__init__"
                /\ events[k] = "hf.__init__"
          /\ response.suggestions = CombineTitles(openai_titles, hf_titles)
          /\ response.status = IF CombineTitles(openai_titles, hf_titles) = <<>>
                               THEN 500 ELSE 200
          /\ response.status = 200 =>
                response.analysis =
                    [keys |-> {"error", "keywords", "summary"},
                     error |-> <<"Content analysis failed">>,
                     keywords |-> <<>>, summary |-> <<>>]
    /\ response.status = 200 =>
          ("analysis" \in response.keys <=> include_analysis)

\* a request whose analysis failed was answered with titles
C22_Witness ==
    /\ pc = "done"
    /\ AnalysisFailed
    /\ response.status = 200
    /\ Len(response.suggestions) = 3
    /\ "analysis" \in response.keys

\* the calls that missed the cache and stored a list
Writers == {arg.wrote[i] : i \in 1..Len(arg.wrote)}

\* the value the cache holds now under the key of the concurrent calls
RaceEntry == cache_get(cache, now, get_cache_key(arg.text, arg.provider))

\* C23 as stated: when two concurrent calls for the same content and
\* provider both missed the cache, the final entry of the key is the same
\* value whichever write landed last (it is the list of each of the writers),
\* and every later hit returns a list one of the calls returned.
C23_RaceValueIdempotent ==
    (/\ \A p \in Callers : arg.step[p] = "done"
     /\ Cardinality(Writers) >= 2)
        => /\ \A p \in Writers : RaceEntry = Some(arg.got[p])
           /\ ret.later.some =>
                 \E p \in Callers : ret.out[p].titles = ret.later.value

\* C23, amended: the key has at most one entry, and once a call has stored
\* it holds the list of the call whose write landed last; every call that
\* stored returns its own list; every later hit returns a list that one of
\* the concurrent calls returned.
C23_LastWriteWins ==
    /\ Cardinality({e \in cache : e.key = get_cache_key(arg.text, arg.provider)}) <= 1
    /\ arg.wrote # <<>> => RaceEntry = Some(arg.got[arg.wrote[Len(arg.wrote)]])
    /\ \A p \in Writers : ret.out[p] = Outcome(FALSE, arg.got[p], TRUE)
    /\ (ret.looked /\ ret.later.some) =>
          \E p \in Callers : /\ ret.out[p].returned
                             /\ ~ ret.out[p].raised
                             /\ ret.out[p].titles = ret.later.value

\* both calls missed, got different lists, and the later hit returned the
\* list of the second writer
C23_Witness ==
    /\ Len(arg.wrote) >= 2
    /\ arg.got[arg.wrote[1]] # arg.got[arg.wrote[2]]
    /\ ret.looked
    /\ ret.later = Some(arg.got[arg.wrote[Len(arg.wrote)]])

\* C24: the merged list is a prefix of Provider A's list followed by a
\* prefix of Provider B's list, so that A's titles come before B's and both
\* keep their order; A's third title is in it only when B contributed
\* nothing.
C24_MergeOrder ==
    pc = "merged" =>
       \E i \in 0..Len(openai_titles), j \in 0..Len(hf_titles) :
          /\ combined_titles = SubSeq(openai_titles, 1, i) \o SubSeq(hf_titles, 1, j)
          /\ i >= 3 => j = 0

\* A gave four titles and B two: two of A, then one of B
C24_Witness ==
    /\ pc = "merged"
    /\ Len(openai_titles) = 4
    /\ Len(hf_titles) = 2
    /\ combined_titles = <<openai_titles[1], openai_titles[2], hf_titles[1]>>

====
